---- MODULE Spec2Model ----
(***************************************************************************)
(* Model of gitdb/object/base.py: Object (content-addressed handle with a  *)
(* lazily resolved size) and IndexObject (adds mode and path).             *)
(*                                                                         *)
(* Optional slots (size, mode, path) are sets of at most one value: {} is  *)
(* an unset __slots__ attribute.  Byte strings (binary shas) are sequences *)
(* of integers, paths are sequences of one-character strings.  Python      *)
(* assert statements are executed (the interpreter is not run with -O).    *)
(***************************************************************************)
EXTENDS Integers, Sequences, FiniteSets, TLC

\* ---------------------------------------------------------------- bounds
MaxByte == 2      \* non-null digests differ in their last byte, 1..MaxByte
MaxSize == 1      \* backend object sizes are drawn from 0..MaxSize
MaxReads == 2     \* size reads counted per instance
NumCtx == 2       \* execution contexts racing on the first size read

\* ------------------------------------------------------------- constants
ShaLen == 20

Types == {"blob", "tree", "commit", "tag"}
\* Tree and Blob are the index objects among the four registered types
IndexTypes == {"blob", "tree"}

Sha(b, n) == [i \in 1..n |-> IF i = n THEN b ELSE 0]
NULL_BIN_SHA == [i \in 1..ShaLen |-> 0]
ValidShas == {Sha(b, ShaLen) : b \in 0..MaxByte}
BadShas == {Sha(1, n) : n \in {0, ShaLen - 1, ShaLen + 1}}
Shas == ValidShas \cup BadShas

Sizes == 0..MaxSize
Modes == {0, 33188}
Paths == {<<"c", ".", "t", "x", "t">>,
          <<"a", "/", "b", "/", "c", ".", "t", "x", "t">>,
          <<"a", "/">>}

NoObject == [type |-> "none", binsha |-> <<>>, size |-> {}, mode |-> {},
             path |-> {}, origin |-> "none"]
NoInfo == [type |-> "none", binsha |-> <<>>, size |-> 0]

The(s) == CHOOSE v \in s : TRUE

VARIABLES odb, bare, inst, other, ret, reads, queries, pc, oinfo, got
vars == <<odb, bare, inst, other, ret, reads, queries, pc, oinfo, got>>

\* ------------------------------------------------------- backend (odb)
\* odb.info(sha): the stored {type, binsha, size}, or a lookup miss
Known(db, sha) == sha \in DOMAIN db /\ db[sha].type # "none"
info(db, sha) ==
    IF Known(db, sha) THEN [err |-> "", val |-> db[sha]]
    ELSE [err |-> "NotFound", val |-> NoInfo]

\* odb.root_path(): the working tree path, fails in a bare repository
RootDir == <<"/", "w", "/", "r">>
root_path(isBare) ==
    IF isBare THEN [err |-> "BareRepository", val |-> <<>>]
    ELSE [err |-> "", val |-> RootDir]

\* odb.stream(sha): a forward-only stream handle, or a lookup miss
stream(db, sha) ==
    IF Known(db, sha) THEN [err |-> "", val |-> <<"stream", sha>>]
    ELSE [err |-> "NotFound", val |-> <<>>]

\* ------------------------------------------------------ path utilities
RECURSIVE LastSlash(_, _)
LastSlash(p, i) ==
    IF i = 0 THEN 0 ELSE IF p[i] = "/" THEN i ELSE LastSlash(p, i - 1)

RECURSIVE RStripSlash(_)
RStripSlash(p) ==
    IF p # <<>> /\ p[Len(p)] = "/" THEN RStripSlash(SubSeq(p, 1, Len(p) - 1))
    ELSE p

\* the part of the path after its last slash
basename(p) == SubSeq(p, LastSlash(p, Len(p)) + 1, Len(p))

\* the part before the last slash, without trailing slashes unless it is
\* made of slashes only
dirname(p) ==
    LET head == SubSeq(p, 1, LastSlash(p, Len(p)))
    IN  IF RStripSlash(head) = <<>> THEN head ELSE RStripSlash(head)

join_path_native(a, b) ==
    IF b # <<>> /\ b[1] = "/" THEN a \o Tail(b)
    ELSE IF a = <<>> \/ a[Len(a)] = "/" THEN a \o b
    ELSE a \o <<"/">> \o b

\* ------------------------------------------------------------- hashing
Ord(c) ==
    CASE c = "/" -> 47 [] c = "." -> 46 [] c = "a" -> 97 [] c = "b" -> 98
      [] c = "c" -> 99 [] c = "t" -> 116 [] c = "w" -> 119 [] c = "r" -> 114
      [] c = "x" -> 120
Codes(p) == [i \in 1..Len(p) |-> Ord(p[i])]

\* hash() of a str: a deterministic function of its bytes and length
RECURSIVE HashFrom(_, _, _)
HashFrom(s, i, x) ==
    IF i > Len(s) THEN (x + Len(s)) % 65536
    ELSE HashFrom(s, i + 1, (31 * x + s[i]) % 65536)
hash(s) == IF s = <<>> THEN 0 ELSE HashFrom(s, 1, s[1] * 128)

\* --------------------------------------------------------------- Object
\* outcome of a call: err = "" on return, else the exception raised;
\* obj is the receiver afterwards; ninfo counts odb.info calls made
Out(e, v, o, n) == [err |-> e, val |-> v, obj |-> o, ninfo |-> n]

\* variant: the length check accepts any sha of at most 20 bytes
Object_init_atmost(cls, binsha) ==
    IF Len(binsha) <= ShaLen
    THEN Out("", 0, [type |-> cls, binsha |-> binsha, size |-> {},
                     mode |-> {}, path |-> {}, origin |-> "construct"], 0)
    ELSE Out("AssertionError", 0, NoObject, 0)

\* Object.__init__(odb, binsha) on class cls
Object_init(cls, binsha) ==
    IF Len(binsha) = ShaLen
    THEN Out("", 0, [type |-> cls, binsha |-> binsha, size |-> {},
                     mode |-> {}, path |-> {}, origin |-> "construct"], 0)
    ELSE Out("AssertionError", 0, NoObject, 0)

\* IndexObject.__init__(odb, binsha, mode=None, path=None); None is {}
IndexObject_init(cls, binsha, mode, path) ==
    LET base == Object_init(cls, binsha)
    IN  IF base.err # "" THEN base
        ELSE Out("", 0, [base.obj EXCEPT !.mode = mode, !.path = path], 0)

\* LazyMixin._set_cache_: the base implementation resolves nothing
LazyMixin_set_cache(o, attr) == Out("", 0, o, 0)

\* variant: the wrong field of the info is stored
StoreSize_wrongfield(o, oi) == [o EXCEPT !.size = {Len(oi.binsha)}]

\* self.size = oinfo.size
StoreSize(o, oi) == [o EXCEPT !.size = {oi.size}]

\* variant: the info is fetched once for the check and once for the size
Object_set_cache_twice(o, attr, db) ==
    IF attr = "size"
    THEN LET oi == info(db, o.binsha)
         IN  IF oi.err # "" THEN Out(oi.err, 0, o, 1)
             ELSE Out("", 0, StoreSize(o, info(db, o.binsha).val), 2)
    ELSE LazyMixin_set_cache(o, attr)

\* Object._set_cache_(attr)
Object_set_cache(o, attr, db) ==
    IF attr = "size"
    THEN LET oi == info(db, o.binsha)
         IN  IF oi.err # "" THEN Out(oi.err, 0, o, 1)
             ELSE Out("", 0, StoreSize(o, oi.val), 1)
    ELSE LazyMixin_set_cache(o, attr)

\* variant: unset path and mode fall back to defaults
IndexObject_set_cache_default(o, attr, db) ==
    IF attr = "path" THEN Out("", 0, [o EXCEPT !.path = {<<>>}], 0)
    ELSE IF attr = "mode" THEN Out("", 0, [o EXCEPT !.mode = {0}], 0)
    ELSE Object_set_cache(o, attr, db)

\* IndexObject._set_cache_(attr)
IndexObject_set_cache(o, attr, db) ==
    IF attr \in {"path", "mode"}
    THEN Out("AttributeError", 0, o, 0)
    ELSE Object_set_cache(o, attr, db)

set_cache(o, attr, db) ==
    IF o.type \in IndexTypes THEN IndexObject_set_cache(o, attr, db)
    ELSE Object_set_cache(o, attr, db)

\* attribute read: a set slot is returned as it is; an unset one goes
\* through LazyMixin.__getattr__, which calls _set_cache_ and reads again
getattr(o, attr, db) ==
    IF o[attr] # {} THEN Out("", The(o[attr]), o, 0)
    ELSE LET sc == set_cache(o, attr, db)
         IN  IF sc.err # "" THEN sc
             ELSE IF sc.obj[attr] = {}
                  THEN Out("AttributeNotSupported", 0, sc.obj, sc.ninfo)
                  ELSE Out("", The(sc.obj[attr]), sc.obj, sc.ninfo)

\* variant: equality also requires the same class
Object_eq_sameclass(a, b) == a.binsha = b.binsha /\ a.type = b.type

\* Object.__eq__ / Object.__ne__
Object_eq(a, b) == a.binsha = b.binsha
Object_ne(a, b) == a.binsha # b.binsha

\* Object.__hash__
Object_hash(o) == Out("", hash(o.binsha), o, 0)

\* IndexObject.__hash__: hash of the path, which must be readable
IndexObject_hash(o, db) ==
    LET p == getattr(o, "path", db)
    IN  IF p.err # "" THEN p ELSE Out("", hash(Codes(p.val)), p.obj, p.ninfo)

hash_of(o, db) ==
    IF o.type \in IndexTypes THEN IndexObject_hash(o, db) ELSE Object_hash(o)

\* the registry of the four object classes, keyed by type name
get_object_type_by_name(t) ==
    IF t \in Types THEN [err |-> "", val |-> t]
    ELSE [err |-> "ValueError", val |-> "none"]

\* cls(odb, binsha): index classes take no mode and no path here
Construct(cls, binsha) ==
    IF cls \in IndexTypes THEN IndexObject_init(cls, binsha, {}, {})
    ELSE Object_init(cls, binsha)

\* variant: the null sha is looked up like any other
new_from_sha_nospecial(db, sha1) ==
    LET oi == info(db, sha1)
        cls == get_object_type_by_name(oi.val.type)
        made == Construct(cls.val, oi.val.binsha)
    IN  IF oi.err # "" THEN Out(oi.err, 0, NoObject, 1)
        ELSE IF cls.err # "" THEN Out(cls.err, 0, NoObject, 1)
        ELSE IF made.err # "" THEN Out(made.err, 0, NoObject, 1)
        ELSE Out("", 0, [made.obj EXCEPT !.size = {oi.val.size}], 1)

\* variant: the size is left to the first read
new_from_sha_nosize(db, sha1) ==
    IF sha1 = NULL_BIN_SHA
    THEN Construct(get_object_type_by_name("commit").val, sha1)
    ELSE LET oi == info(db, sha1)
             cls == get_object_type_by_name(oi.val.type)
             made == Construct(cls.val, oi.val.binsha)
         IN  IF oi.err # "" THEN Out(oi.err, 0, NoObject, 1)
             ELSE IF cls.err # "" THEN Out(cls.err, 0, NoObject, 1)
             ELSE IF made.err # "" THEN Out(made.err, 0, NoObject, 1)
             ELSE Out("", 0, made.obj, 1)

\* Object.new_from_sha(odb, sha1)
new_from_sha(db, sha1) ==
    IF sha1 = NULL_BIN_SHA
    THEN Construct(get_object_type_by_name("commit").val, sha1)
    ELSE LET oi == info(db, sha1)
             cls == get_object_type_by_name(oi.val.type)
             made == Construct(cls.val, oi.val.binsha)
         IN  IF oi.err # "" THEN Out(oi.err, 0, NoObject, 1)
             ELSE IF cls.err # "" THEN Out(cls.err, 0, NoObject, 1)
             ELSE IF made.err # "" THEN Out(made.err, 0, NoObject, 1)
             ELSE Out("", 0, [made.obj EXCEPT !.size = {oi.val.size}], 1)

\* odb.rev_parse(str(id)): the backend resolves the name and builds the
\* instance itself
RevSpecs == {"HEAD", "missing"}
rev_parse(db, rev, sha) ==
    IF rev = "HEAD" /\ Known(db, sha)
    THEN Construct(db[sha].type, db[sha].binsha)
    ELSE Out("NotFound", 0, NoObject, 0)

\* Object.new(odb, id)
new(db, rev, sha) == rev_parse(db, rev, sha)

\* Object.data_stream
data_stream(o, db) ==
    LET st == stream(db, o.binsha) IN Out(st.err, st.val, o, 0)

\* IndexObject.name
name(o, db) ==
    LET p == getattr(o, "path", db)
    IN  IF p.err # "" THEN p ELSE Out("", basename(p.val), p.obj, p.ninfo)

\* variant: no assert, the path is computed
abspath_unchecked(o, isBare, db) ==
    LET root == root_path(isBare)
        p == getattr(o, "path", db)
    IN  IF root.err # "" THEN Out(root.err, <<>>, o, 0)
        ELSE IF p.err # "" THEN Out(p.err, <<>>, o, 0)
        ELSE Out("", join_path_native(dirname(root.val), p.val), o, 0)

\* IndexObject.abspath: "assert False" comes first, so the return
\* statement behind it is never reached
abspath(o, isBare, db) ==
    LET asserted == FALSE
        root == root_path(isBare)
        p == getattr(o, "path", db)
    IN  IF ~asserted THEN Out("AssertionError", <<>>, o, 0)
        ELSE IF root.err # "" THEN Out(root.err, <<>>, o, 0)
        ELSE IF p.err # "" THEN Out(p.err, <<>>, o, 0)
        ELSE Out("", join_path_native(dirname(root.val), p.val), o, 0)

\* ================================================================ state
\* odb, bare : the backend: stored objects by sha, and whether it is bare
\* inst      : the instance the caller holds (NoObject before the first)
\* other     : a second instance, for comparisons
\* ret       : the last call: operation, sha argument, exception raised
\*             ("" if none), value returned, backend calls it made
\* reads, queries : successful size reads of inst, and the odb.info calls
\*             made by size reads of inst
\* pc, oinfo, got : per execution context, the position inside a size
\*             read, the info it fetched and the value it last read
Ret(op, arg, e, v, ni, ns, nr) ==
    [op |-> op, arg |-> arg, err |-> e, val |-> v,
     ninfo |-> ni, nstream |-> ns, nrev |-> nr]
NoRet == Ret("none", <<>>, "", 0, 0, 0, 0)

Ctx == 1..NumCtx
Opt(S) == {{}} \cup {{v} : v \in S}

\* a backend storing at most one object; the sha it reports for it is the
\* one asked for or the last valid sha
EmptyDb == [s \in ValidShas |-> NoInfo]
Backends ==
    {EmptyDb} \cup
    {[EmptyDb EXCEPT ![s] = [type |-> t, binsha |-> c, size |-> z]] :
        <<s, t, c, z>> \in {q \in ValidShas \X Types \X ValidShas \X Sizes :
                                q[3] \in {q[1], Sha(MaxByte, ShaLen)}}}

Idle == /\ pc = [c \in Ctx |-> "idle"]
        /\ oinfo = [c \in Ctx |-> NoInfo]
        /\ got = [c \in Ctx |-> {}]

Init ==
    /\ odb \in Backends
    /\ bare \in BOOLEAN
    /\ inst = NoObject
    /\ other = NoObject
    /\ ret = NoRet
    /\ reads = 0
    /\ queries = 0
    /\ Idle

\* a constructor or factory call by a caller that holds no instance: on
\* success it holds the new one, on an exception it still holds none
Made(op, arg, r, org, nr) ==
    /\ inst = NoObject
    /\ ret' = Ret(op, arg, r.err, IF r.err = "" THEN 1 ELSE 0, r.ninfo, 0, nr)
    /\ IF r.err = ""
       THEN inst' = [r.obj EXCEPT !.origin = org] /\ reads' = 0 /\ queries' = 0
       ELSE UNCHANGED <<inst, reads, queries>>
    /\ UNCHANGED <<odb, bare, other, pc, oinfo, got>>

DoConstruct ==
    \E cls \in Types \ IndexTypes, sha \in Shas :
        Made("construct", sha, Object_init(cls, sha), "construct", 0)

DoConstructIndex ==
    \E cls \in IndexTypes, sha \in Shas, m \in Opt(Modes), p \in Opt(Paths) :
        Made("construct_index", sha, IndexObject_init(cls, sha, m, p),
             "construct", 0)

DoNewFromSha ==
    \E sha \in Shas :
        Made("new_from_sha", sha, new_from_sha(odb, sha), "resolve", 0)

DoNew ==
    \E rev \in RevSpecs, sha \in ValidShas :
        Made("new", sha, new(odb, rev, sha), "rev_parse", 1)

\* a call on the held instance
Called(op, r, ns) ==
    /\ ret' = Ret(op, inst.binsha, r.err, r.val, r.ninfo, ns, 0)
    /\ inst' = r.obj
    /\ UNCHANGED <<odb, bare, other, pc, oinfo, got>>

ReadSize ==
    /\ inst # NoObject
    /\ reads < MaxReads /\ queries < MaxReads
    /\ LET r == getattr(inst, "size", odb)
       IN  /\ Called("size", r, 0)
           /\ reads' = IF r.err = "" THEN reads + 1 ELSE reads
           /\ queries' = queries + r.ninfo

ReadMode ==
    /\ inst.type \in IndexTypes
    /\ Called("mode", getattr(inst, "mode", odb), 0)
    /\ UNCHANGED <<reads, queries>>

ReadPath ==
    /\ inst.type \in IndexTypes
    /\ Called("path", getattr(inst, "path", odb), 0)
    /\ UNCHANGED <<reads, queries>>

DoName ==
    /\ inst.type \in IndexTypes
    /\ Called("name", name(inst, odb), 0)
    /\ UNCHANGED <<reads, queries>>

DoAbspath ==
    /\ inst.type \in IndexTypes
    /\ Called("abspath", abspath(inst, bare, odb), 0)
    /\ UNCHANGED <<reads, queries>>

DoHash ==
    /\ inst # NoObject
    /\ Called("hash", hash_of(inst, odb), 0)
    /\ UNCHANGED <<reads, queries>>

DoDataStream ==
    /\ inst # NoObject
    /\ Called("data_stream", data_stream(inst, odb), 1)
    /\ UNCHANGED <<reads, queries>>

\* the instance goes out of scope
Drop ==
    /\ inst # NoObject
    /\ inst' = NoObject /\ ret' = NoRet /\ reads' = 0 /\ queries' = 0
    /\ UNCHANGED <<odb, bare, other, pc, oinfo, got>>

Next ==
    \/ Drop
    \/ DoConstruct \/ DoConstructIndex \/ DoNewFromSha \/ DoNew
    \/ ReadSize \/ ReadMode \/ ReadPath \/ DoName \/ DoAbspath
    \/ DoHash \/ DoDataStream

Spec == Init /\ [][Next]_vars

\* ------------------------------------------- two instances, compared
InitPair ==
    /\ odb = EmptyDb /\ bare = FALSE
    /\ inst = NoObject /\ other = NoObject
    /\ ret = NoRet /\ reads = 0 /\ queries = 0
    /\ Idle

PairMade(op, arg, r) ==
    /\ ret' = Ret(op, arg, r.err, IF r.err = "" THEN 1 ELSE 0, r.ninfo, 0, 0)
    /\ \/ inst = NoObject /\ UNCHANGED other
          /\ inst' = IF r.err = "" THEN r.obj ELSE inst
       \/ inst # NoObject /\ other = NoObject /\ UNCHANGED inst
          /\ other' = IF r.err = "" THEN r.obj ELSE other
    /\ UNCHANGED <<odb, bare, reads, queries, pc, oinfo, got>>

PairConstruct ==
    \E cls \in Types \ IndexTypes, sha \in Shas :
        PairMade("construct", sha, Object_init(cls, sha))

PairConstructIndex ==
    \E cls \in IndexTypes, sha \in Shas, m \in Opt(Modes), p \in Opt(Paths) :
        PairMade("construct_index", sha, IndexObject_init(cls, sha, m, p))

PairCalled(op, v) ==
    /\ inst # NoObject /\ other # NoObject
    /\ ret' = Ret(op, <<>>, "", v, 0, 0, 0)
    /\ UNCHANGED <<odb, bare, inst, other, reads, queries, pc, oinfo, got>>

\* inst == other
DoEq == PairCalled("eq", Object_eq(inst, other))

\* inst != other
DoNe == PairCalled("ne", Object_ne(inst, other))

\* hash(inst), hash(other): each is the exception raised or the value
HashResult(o) ==
    LET h == hash_of(o, odb) IN [err |-> h.err, val |-> h.val]
DoHashBoth == PairCalled("hash", <<HashResult(inst), HashResult(other)>>)

PairDrop ==
    /\ other # NoObject
    /\ \/ inst' = other /\ other' = NoObject
       \/ inst' = inst /\ other' = NoObject
    /\ ret' = NoRet
    /\ UNCHANGED <<odb, bare, reads, queries, pc, oinfo, got>>

NextPair ==
    \/ PairConstruct \/ PairConstructIndex
    \/ DoEq \/ DoNe \/ DoHashBoth \/ PairDrop

SpecPair == InitPair /\ [][NextPair]_vars

\* ----------------------------- contexts racing on the first size read
\* one instance over a sha the backend knows; every context reads size,
\* step by step: slot lookup, odb.info, the store, the final slot read
InitRace ==
    /\ odb \in Backends /\ bare = FALSE
    /\ \E cls \in Types, sha \in ValidShas :
          /\ Known(odb, sha)
          /\ inst = Construct(cls, sha).obj
    /\ other = NoObject /\ ret = NoRet /\ reads = 0 /\ queries = 0
    /\ Idle

RaceFrame == UNCHANGED <<odb, bare, other, ret, reads>>

\* the slot lookup: a set slot is returned, an unset one enters __getattr__
RaceLookup(c) ==
    /\ pc[c] \in {"idle", "done"}
    /\ IF inst.size # {}
       THEN /\ got' = [got EXCEPT ![c] = inst.size]
            /\ pc' = [pc EXCEPT ![c] = "done"]
       ELSE /\ pc' = [pc EXCEPT ![c] = "query"]
            /\ UNCHANGED got
    /\ UNCHANGED <<inst, oinfo, queries>>
    /\ RaceFrame

\* oinfo = self.odb.info(self.binsha)
RaceQuery(c) ==
    /\ pc[c] = "query"
    /\ LET oi == info(odb, inst.binsha)
       IN  /\ oinfo' = [oinfo EXCEPT ![c] = oi.val]
           /\ pc' = [pc EXCEPT ![c] = IF oi.err = "" THEN "store" ELSE "idle"]
    /\ queries' = queries + 1
    /\ UNCHANGED <<inst, got>>
    /\ RaceFrame

\* self.size = oinfo.size
RaceStore(c) ==
    /\ pc[c] = "store"
    /\ inst' = StoreSize(inst, oinfo[c])
    /\ pc' = [pc EXCEPT ![c] = "fetch"]
    /\ UNCHANGED <<oinfo, got, queries>>
    /\ RaceFrame

\* __getattr__ returns the slot it has just filled
RaceFetch(c) ==
    /\ pc[c] = "fetch"
    /\ got' = [got EXCEPT ![c] = inst.size]
    /\ pc' = [pc EXCEPT ![c] = "done"]
    /\ UNCHANGED <<inst, oinfo, queries>>
    /\ RaceFrame

NextRace ==
    \E c \in Ctx :
        \/ RaceLookup(c) \/ RaceQuery(c) \/ RaceStore(c) \/ RaceFetch(c)

SpecRace == InitRace /\ [][NextRace]_vars

\* ============================================================ properties
Both == inst # NoObject /\ other # NoObject
IsIndex(o) == o.type \in IndexTypes
HashOk(h) == h.err = ""

\* C1 (as stated): whatever the two instances are, equal digests make
\* equals() true and the two hash() values equal, and equals() is true only
\* for equal digests.
C1_EqualDigestsEqualHash ==
    Both =>
        /\ ret.op = "eq" => (ret.val <=> inst.binsha = other.binsha)
        /\ (ret.op = "hash" /\ inst.binsha = other.binsha) =>
               /\ HashOk(ret.val[1]) /\ HashOk(ret.val[2])
               /\ ret.val[1].val = ret.val[2].val

\* C1 (amended): equals() is true exactly for equal digests and != is its
\* negation, for every pair; an instance that is not an index object hashes
\* to hash(digest), so two such instances with equal digests have equal
\* hashes; an index object hashes to hash(path), and its hash() raises
\* when its path is unset.
HashAsCoded(o, h) ==
    IF ~IsIndex(o) THEN HashOk(h) /\ h.val = hash(o.binsha)
    ELSE IF o.path = {} THEN h.err = "AttributeError"
    ELSE HashOk(h) /\ h.val = hash(Codes(The(o.path)))
C1_EqByDigestHashByKind ==
    Both =>
        /\ ret.op = "eq" => (ret.val <=> inst.binsha = other.binsha)
        /\ ret.op = "ne" => (ret.val <=> inst.binsha # other.binsha)
        /\ ret.op = "hash" =>
               /\ HashAsCoded(inst, ret.val[1])
               /\ HashAsCoded(other, ret.val[2])
               /\ (~IsIndex(inst) /\ ~IsIndex(other)
                     /\ inst.binsha = other.binsha) =>
                       ret.val[1] = ret.val[2]
C1_Witness ==
    /\ Both /\ ret.op = "hash"
    /\ inst.binsha = other.binsha
    /\ inst.type = "commit" /\ other.type = "tag"
    /\ HashOk(ret.val[1]) /\ ret.val[1] = ret.val[2]

\* C2: an instance built by the constructor over a digest the backend knows
\* has caused exactly one odb.info call once size has been read at least
\* once; the first read makes that call, every later read makes none, and
\* all of them return the backend's size.
C2_OneInfoQuery ==
    (inst.origin = "construct" /\ Known(odb, inst.binsha) /\ reads >= 1) =>
        /\ queries = 1
        /\ inst.size = {odb[inst.binsha].size}
        /\ ret.op = "size" =>
               /\ ret.err = ""
               /\ ret.val = odb[inst.binsha].size
               /\ ret.ninfo = IF reads = 1 THEN 1 ELSE 0
C2_Witness ==
    /\ inst.origin = "construct" /\ Known(odb, inst.binsha)
    /\ reads >= 2 /\ ret.op = "size" /\ ret.ninfo = 0 /\ queries = 1

\* C3: new_from_sha of the null sha returns a commit whose sha is the null
\* sha, whatever the backend stores, and calls neither odb.info, odb.stream
\* nor odb.rev_parse.
C3_NullShaIsCommit ==
    (ret.op = "new_from_sha" /\ ret.arg = NULL_BIN_SHA) =>
        /\ ret.err = ""
        /\ inst.type = "commit" /\ inst.binsha = NULL_BIN_SHA
        /\ ret.ninfo = 0 /\ ret.nstream = 0 /\ ret.nrev = 0
C3_Witness ==
    /\ ret.op = "new_from_sha" /\ ret.arg = NULL_BIN_SHA
    /\ Known(odb, NULL_BIN_SHA) /\ odb[NULL_BIN_SHA].type = "blob"
    /\ inst.type = "commit"

\* C4: new_from_sha of a non-null sha the backend knows makes one odb.info
\* call and returns the class registered for the reported type, carrying
\* the reported sha and the reported size, so that reading size afterwards
\* calls odb.info no more; for a sha the backend does not know it raises
\* the lookup miss and returns nothing.
ResolvedByInfo == inst.origin = "resolve" /\ inst.binsha # NULL_BIN_SHA
C4_ResolveByInfo ==
    /\ (ret.op = "new_from_sha" /\ ret.arg # NULL_BIN_SHA) =>
          IF Known(odb, ret.arg)
          THEN /\ ret.err = "" /\ ret.ninfo = 1
               /\ inst.type = odb[ret.arg].type
               /\ inst.binsha = odb[ret.arg].binsha
               /\ inst.size = {odb[ret.arg].size}
          ELSE ret.err = "NotFound" /\ ret.ninfo = 1 /\ inst = NoObject
    /\ ResolvedByInfo =>
          /\ queries = 0
          /\ inst.size # {}
          /\ ret.op = "size" =>
                ret.err = "" /\ ret.ninfo = 0 /\ ret.val = The(inst.size)
C4_Witness ==
    /\ ResolvedByInfo /\ ret.op = "size" /\ reads >= 1 /\ queries = 0
    /\ inst.type = "tree" /\ inst.size = {0}

\* C5: a constructor given a sha that is not 20 bytes long raises and hands
\* out no instance, so every instance has a sha of exactly 20 bytes.
C5_ShaIsTwentyBytes ==
    /\ (ret.op \in {"construct", "construct_index"} /\ Len(ret.arg) # ShaLen)
          => ret.err = "AssertionError" /\ inst = NoObject
    /\ inst # NoObject => Len(inst.binsha) = ShaLen
C5_Witness ==
    /\ ret.op = "construct_index" /\ Len(ret.arg) = ShaLen - 1
    /\ ret.err = "AssertionError" /\ inst = NoObject

\* C6: reading path or name (mode) of an index object whose path (mode) is
\* unset raises AttributeError, calls the backend not at all and leaves the
\* slot unset; name of an index object with a path is the part of the path
\* after its last slash, "c.txt" for "a/b/c.txt".
UnsetReadFails(slot, ops) ==
    (IsIndex(inst) /\ inst[slot] = {} /\ ret'.op \in ops /\ inst' # NoObject)
        => /\ ret'.err = "AttributeError"
           /\ ret'.ninfo = 0 /\ ret'.nstream = 0 /\ ret'.nrev = 0
           /\ inst'[slot] = {}
NameIsBasename ==
    (ret.op = "name" /\ inst.path # {}) =>
        /\ ret.err = ""
        /\ ret.val = basename(The(inst.path))
        /\ The(inst.path) = <<"a", "/", "b", "/", "c", ".", "t", "x", "t">>
              => ret.val = <<"c", ".", "t", "x", "t">>
C6_UnsetPathModeUnreadable ==
    /\ []NameIsBasename
    /\ [][UnsetReadFails("path", {"path", "name"})]_vars
    /\ [][UnsetReadFails("mode", {"mode"})]_vars
C6_Witness ==
    /\ IsIndex(inst) /\ inst.path = {} /\ inst.mode # {}
    /\ ret.op = "name" /\ ret.err = "AttributeError"

\* C7: abspath of an index object of a bare backend raises the assertion
\* error, whatever its sha, mode and path, and returns no path.
C7_AbspathFailsWhenBare ==
    (ret.op = "abspath" /\ bare) => ret.err = "AssertionError" /\ ret.val = <<>>
C7_Witness ==
    /\ ret.op = "abspath" /\ bare /\ inst.path # {} /\ inst.mode = {}
    /\ ret.err = "AssertionError"

\* C8: abspath of an index object with a path, on a backend that is not
\* bare, returns the working tree root joined with the path.
C8_AbspathJoinsRoot ==
    (ret.op = "abspath" /\ ~bare /\ inst.path # {}) =>
        /\ ret.err = ""
        /\ ret.val = join_path_native(root_path(bare).val, The(inst.path))

\* C9: a size read that resolves through odb.info and is told a type other
\* than the instance's own does not return normally.
C9_TypeMismatchFails ==
    (ret.op = "size" /\ ret.ninfo = 1 /\ Known(odb, inst.binsha)
       /\ odb[inst.binsha].type # inst.type) => ret.err # ""

\* C10: with contexts racing on the size of one instance, every value read
\* is the backend's size, a stored size never changes, and the odb.info
\* calls number at most one per context and at least one once a read has
\* returned.
RaceValues ==
    /\ \A c \in Ctx : got[c] \in {{}, {odb[inst.binsha].size}}
    /\ inst.size \in {{}, {odb[inst.binsha].size}}
    /\ queries <= NumCtx
    /\ (\E c \in Ctx : got[c] # {}) => queries >= 1
C10_BenignRace ==
    /\ []RaceValues
    /\ [][inst.size # {} => inst'.size = inst.size]_vars
C10_Witness ==
    /\ \A c \in Ctx : pc[c] = "done" /\ got[c] = {odb[inst.binsha].size}
    /\ queries = NumCtx
====
